---- MODULE Spec2Model ----
(***************************************************************************)
(* A model of RedisDatabase (src/src/RedisDatabase.cpp,                    *)
(* src/include/RedisDatabase.h): three type-partitioned stores over one    *)
(* key namespace, an expiry map purged lazily, and a text dump/load codec. *)
(* A std::string is a sequence of one-character strings, an unordered_map  *)
(* is a function whose DOMAIN is its key set, a vector is a sequence.      *)
(***************************************************************************)
EXTENDS Integers, Sequences, FiniteSets, TLC

VARIABLES
    kv_store,     \* unordered_map<string, string>
    list_store,   \* unordered_map<string, vector<string>>
    hash_store,   \* unordered_map<string, unordered_map<string, string>>
    expiry_map,   \* unordered_map<string, time_point>
    now,          \* std::chrono::steady_clock::now(), in seconds
    file,         \* the content of the dump file, or NoFile
    last,         \* the last completed call: its name, arguments and results
    db_mutex,     \* the thread holding db_mutex, or Free
    pc,           \* each thread's position in the call it is making
    call          \* each thread's arguments and locals of that call

vars == <<kv_store, list_store, hash_store, expiry_map, now, file, last,
          db_mutex, pc, call>>

stores == <<kv_store, list_store, hash_store>>

----------------------------------------------------------------------------
(* Bounds of the model. *)

\* the clock runs from 0 to MaxTime
MaxTime == 1
\* expire is called with a ttl in -1 .. MaxTTL
MaxTTL == 0
\* strings, list items and hash fields held by the three stores together
MaxEntries == 2
\* the same, in the persistence scenario
MaxDumpEntries == 2
\* the same, in the list scenario
MaxListLen == 3

Keys == {<<"a">>, <<"b">>}
Vals == {<<"x">>, <<"y">>}
Fields == {<<"f">>}
\* values written to hash fields by hset and hmset
HashVals == {<<"x">>}

\* the strings of the persistence scenario: plain ones, the empty string and
\* strings holding a line break, a colon or a space
DumpKeys == {<<"a">>, <<"b">>, <<>>}
DumpVals == {<<"x">>, <<"y">>, <<>>, <<"\n">>}
DumpFields == {<<"f">>, <<"g">>, <<"f", ":", "g">>}
DumpHashVals == {<<"x">>, <<"x", " ", "y">>}
TTLs == (0 - 1) .. MaxTTL

NoFile == "NoFile"
Free == "Free"
Threads == {"t1", "t2"}
EmptyMap == [x \in {} |-> x]
EmptyStr == <<>>

----------------------------------------------------------------------------
(* unordered_map and vector primitives. *)

\* m[k] = v
Put(m, k, v) == [x \in (DOMAIN m) \cup {k} |-> IF x = k THEN v ELSE m[x]]

\* m.erase(k)
Erase(m, k) == [x \in (DOMAIN m) \ {k} |-> m[x]]

\* m.erase(k) for every k of S
EraseAll(m, S) == [x \in (DOMAIN m) \ S |-> m[x]]

\* m.find(k) != m.end()
Has(m, k) == k \in DOMAIN m

RECURSIVE SumOver(_, _)
SumOver(S, m) ==
    IF S = {} THEN 0
    ELSE LET x == CHOOSE y \in S : TRUE
         IN m[x] + SumOver(S \ {x}, m)

\* the number of strings, list items and hash fields held
Entries(kv, ls, hs) ==
    Cardinality(DOMAIN kv)
    + SumOver(DOMAIN ls, [k \in DOMAIN ls |-> Len(ls[k])])
    + SumOver(DOMAIN hs, [k \in DOMAIN hs |-> Cardinality(DOMAIN hs[k])])

----------------------------------------------------------------------------
(* purgeExpired *)

\* a purge that also takes the keys whose deadline is the current instant
IsExpiredAtDeadline(t, deadline) == t >= deadline

\* a purge that takes a key a second after its deadline has passed
IsExpiredLate(t, deadline) == t > deadline + 1

\* now > it->second
IsExpired(t, deadline) == t > deadline

\* the keys purgeExpired erases when the clock reads t
ExpiredKeys(ex, t) == {k \in DOMAIN ex : IsExpired(t, ex[k])}

\* the four maps of a RedisDatabase, as one value
Db == [kv |-> kv_store, ls |-> list_store, hs |-> hash_store, ex |-> expiry_map]

\* a purge that erases the data and keeps the expiry entries
purgeKeepsDeadlines(db, t) ==
    LET gone == ExpiredKeys(db.ex, t)
    IN [kv |-> EraseAll(db.kv, gone),
        ls |-> EraseAll(db.ls, gone),
        hs |-> EraseAll(db.hs, gone),
        ex |-> db.ex]

\* purgeExpired() when the clock reads t: every key whose deadline has passed
\* leaves the three stores and the expiry map
purgeExpired(db, t) ==
    LET gone == ExpiredKeys(db.ex, t)
    IN [kv |-> EraseAll(db.kv, gone),
        ls |-> EraseAll(db.ls, gone),
        hs |-> EraseAll(db.hs, gone),
        ex |-> EraseAll(db.ex, gone)]

----------------------------------------------------------------------------
(* Key/value operations, as functions of the maps and the clock.  Each     *)
(* gives the maps after the call (db) and what the call returns.           *)

\* flushAll(): the three stores are cleared, expiry_map is not
flushAll(db) ==
    [db |-> [kv |-> EmptyMap, ls |-> EmptyMap, hs |-> EmptyMap, ex |-> db.ex],
     ret |-> TRUE]

\* a set that keeps the value of a key already present (insert, not operator[])
setKeepsOld(db, key, value) ==
    [db |-> [db EXCEPT !.kv = IF Has(db.kv, key) THEN db.kv ELSE Put(db.kv, key, value)],
     ret |-> TRUE]

\* set(key, value): no purge, no change to expiry_map
set(db, key, value) ==
    [db |-> [db EXCEPT !.kv = Put(db.kv, key, value)], ret |-> TRUE]

\* get(key, value): value is written only when the key is found
get(db, t, key) ==
    LET p == purgeExpired(db, t)
    IN IF Has(p.kv, key)
       THEN [db |-> p, ret |-> TRUE, val |-> p.kv[key]]
       ELSE [db |-> p, ret |-> FALSE, val |-> EmptyStr]

\* keys(): the keys of the three stores one after the other, so a key held by
\* two stores is listed twice; the result maps each key to the number of
\* times the vector lists it (the order within a store is unspecified)
keys(db, t) ==
    LET p == purgeExpired(db, t)
        cnt(m, k) == IF Has(m, k) THEN 1 ELSE 0
    IN [db |-> p,
        val |-> [k \in (DOMAIN p.kv) \cup (DOMAIN p.ls) \cup (DOMAIN p.hs) |->
                    cnt(p.kv, k) + cnt(p.ls, k) + cnt(p.hs, k)]]

\* type(key)
type(db, t, key) ==
    LET p == purgeExpired(db, t)
    IN [db |-> p,
        val |-> IF Has(p.kv, key) THEN "string"
                ELSE IF Has(p.ls, key) THEN "list"
                ELSE IF Has(p.hs, key) THEN "hash"
                ELSE "none"]

\* the value del returns (line 75)
delReturn(erased) == FALSE

\* a del that forgets the list store
delSkipsLists(db, t, key) ==
    LET p == purgeExpired(db, t)
        erased == Has(p.kv, key) \/ Has(p.hs, key)
    IN [db |-> [p EXCEPT !.kv = Erase(p.kv, key), !.hs = Erase(p.hs, key)],
        erased |-> erased,
        ret |-> delReturn(erased)]

\* del(key): erases from the three stores, leaves expiry_map alone
del(db, t, key) ==
    LET p == purgeExpired(db, t)
        erased == Has(p.kv, key) \/ Has(p.ls, key) \/ Has(p.hs, key)
    IN [db |-> [p EXCEPT !.kv = Erase(p.kv, key),
                         !.ls = Erase(p.ls, key),
                         !.hs = Erase(p.hs, key)],
        erased |-> erased,
        ret |-> delReturn(erased)]

\* an expire that keeps a deadline the key already has
expireKeepsEarlier(db, t, key, seconds) ==
    LET p == purgeExpired(db, t)
        exists == Has(p.kv, key) \/ Has(p.ls, key) \/ Has(p.hs, key)
    IN IF ~exists
       THEN [db |-> p, ret |-> FALSE]
       ELSE [db |-> [p EXCEPT !.ex = IF Has(p.ex, key) THEN p.ex
                                      ELSE Put(p.ex, key, t + seconds)],
             ret |-> TRUE]

\* expire(key, seconds)
expire(db, t, key, seconds) ==
    LET p == purgeExpired(db, t)
        exists == Has(p.kv, key) \/ Has(p.ls, key) \/ Has(p.hs, key)
    IN IF ~exists
       THEN [db |-> p, ret |-> FALSE]
       ELSE [db |-> [p EXCEPT !.ex = Put(p.ex, key, t + seconds)], ret |-> TRUE]

\* one of rename's four blocks: m[newKey] = it->second; m.erase(it).
\* When oldKey = newKey the assignment is a self-assignment and the erase
\* removes the entry.  (When the insertion of newKey rehashes the table the
\* iterator is formally invalidated; libstdc++, libc++ and MSVC all keep
\* node-based iterators usable, and the erase removes oldKey.)
MoveKey(m, oldKey, newKey) ==
    IF Has(m, oldKey) THEN Erase(Put(m, newKey, m[oldKey]), oldKey) ELSE m

\* rename(oldKey, newKey)
rename(db, t, oldKey, newKey) ==
    LET p == purgeExpired(db, t)
        found == Has(p.kv, oldKey) \/ Has(p.ls, oldKey) \/ Has(p.hs, oldKey)
    IN [db |-> [kv |-> MoveKey(p.kv, oldKey, newKey),
                ls |-> MoveKey(p.ls, oldKey, newKey),
                hs |-> MoveKey(p.hs, oldKey, newKey),
                ex |-> MoveKey(p.ex, oldKey, newKey)],
        ret |-> found]

----------------------------------------------------------------------------
(* List operations. *)

\* lget(key): a copy of the list, empty for an absent key; no purge
lget(db, key) == IF Has(db.ls, key) THEN db.ls[key] ELSE <<>>

\* llen(key)
llen(db, key) == IF Has(db.ls, key) THEN Len(db.ls[key]) ELSE 0

\* list_store[key]: the entry, created empty when absent
ListAt(ls, key) == IF Has(ls, key) THEN ls[key] ELSE <<>>

\* lpush(key, value)
lpush(db, key, value) ==
    [db |-> [db EXCEPT !.ls = Put(db.ls, key, <<value>> \o ListAt(db.ls, key))],
     ret |-> TRUE]

\* rpush(key, value)
rpush(db, key, value) ==
    [db |-> [db EXCEPT !.ls = Put(db.ls, key, Append(ListAt(db.ls, key), value))],
     ret |-> TRUE]

\* lpop(key, value): front() is returned and erased; an emptied list keeps
\* its entry; no purge
lpop(db, key) ==
    IF Has(db.ls, key) /\ db.ls[key] # <<>>
    THEN [db |-> [db EXCEPT !.ls = Put(db.ls, key, Tail(db.ls[key]))],
          ret |-> TRUE, val |-> Head(db.ls[key])]
    ELSE [db |-> db, ret |-> FALSE, val |-> EmptyStr]

\* rpop(key, value): back() is returned and popped
rpop(db, key) ==
    IF Has(db.ls, key) /\ db.ls[key] # <<>>
    THEN LET lst == db.ls[key]
         IN [db |-> [db EXCEPT !.ls = Put(db.ls, key, SubSeq(lst, 1, Len(lst) - 1))],
             ret |-> TRUE, val |-> lst[Len(lst)]]
    ELSE [db |-> db, ret |-> FALSE, val |-> EmptyStr]

\* the range of int
IntMax == 2147483647
IntMin == (0 - IntMax) - 1

\* vector::erase of the element at position i (from 1)
EraseAt(lst, i) == SubSeq(lst, 1, i - 1) \o SubSeq(lst, i + 1, Len(lst))

\* std::remove followed by erase(new_end, end): the elements different from
\* value, in their order
RemoveAll(lst, value) == SelectSeq(lst, LAMBDA x : x # value)

\* lrem, count > 0: iter walks from begin(); erase returns the position of the
\* next element, which is then at the same index
RECURSIVE RemoveFromHead(_, _, _, _, _)
RemoveFromHead(lst, iter, removed, count, value) ==
    IF iter > Len(lst) \/ ~(removed < count)
    THEN [lst |-> lst, removed |-> removed]
    ELSE IF lst[iter] = value
         THEN RemoveFromHead(EraseAt(lst, iter), iter, removed + 1, count, value)
         ELSE RemoveFromHead(lst, iter + 1, removed, count, value)

\* lrem, count < 0: riter walks from rbegin() and designates the element at
\* index riter (0 is rend()); after the erase, reverse_iterator(fwdIter)
\* designates the element before the erased one.  limit is the value of -count
RECURSIVE RemoveFromTail(_, _, _, _, _)
RemoveFromTail(lst, riter, removed, limit, value) ==
    IF riter = 0 \/ ~(removed < limit)
    THEN [lst |-> lst, removed |-> removed]
    ELSE IF lst[riter] = value
         THEN RemoveFromTail(EraseAt(lst, riter), riter - 1, removed + 1, limit, value)
         ELSE RemoveFromTail(lst, riter - 1, removed, limit, value)

\* the value of (-count).  For count = INT_MIN the negation overflows, which
\* is undefined: a build either wraps to INT_MIN or folds the comparison
\* removed < -count as if the negation were exact, when it holds for every
\* removed a list can give (IntMax stands for that limit)
Negated(count) == IF count = IntMin THEN {IntMin, IntMax} ELSE {0 - count}

\* lrem(key, count, value), with limit the value the build gives -count
lrem(db, key, count, value, limit) ==
    IF ~Has(db.ls, key) THEN [db |-> db, ret |-> 0]
    ELSE LET lst == db.ls[key]
             r == IF count = 0
                  THEN [lst |-> RemoveAll(lst, value),
                        removed |-> Len(lst) - Len(RemoveAll(lst, value))]
                  ELSE IF count > 0
                  THEN RemoveFromHead(lst, 1, 0, count, value)
                  ELSE RemoveFromTail(lst, Len(lst), 0, limit, value)
         IN [db |-> [db EXCEPT !.ls = Put(db.ls, key, r.lst)], ret |-> r.removed]

\* a normalisation that counts negative indices from one past the end
NormalizedPastEnd(lst, index) == IF index < 0 THEN Len(lst) + index + 1 ELSE index

\* index after `if (index < 0) index = lst.size() + index;` (the sum of a
\* size below 2^31 and a negative int is in the range of int)
Normalized(lst, index) == IF index < 0 THEN Len(lst) + index ELSE index

\* index < 0 || index >= static_cast<int>(lst.size())
OutOfRange(lst, index) == index < 0 \/ index >= Len(lst)

\* lindex(key, index, value); positions of the vector count from 0
lindex(db, key, index) ==
    IF ~Has(db.ls, key) THEN [db |-> db, ret |-> FALSE, val |-> EmptyStr]
    ELSE LET lst == db.ls[key]
             i == Normalized(lst, index)
         IN IF OutOfRange(lst, i)
            THEN [db |-> db, ret |-> FALSE, val |-> EmptyStr]
            ELSE [db |-> db, ret |-> TRUE, val |-> lst[i + 1]]

\* lset(key, index, value)
lset(db, key, index, value) ==
    IF ~Has(db.ls, key) THEN [db |-> db, ret |-> FALSE]
    ELSE LET lst == db.ls[key]
             i == Normalized(lst, index)
         IN IF OutOfRange(lst, i)
            THEN [db |-> db, ret |-> FALSE]
            ELSE [db |-> [db EXCEPT !.ls = Put(db.ls, key, [lst EXCEPT ![i + 1] = value])],
                  ret |-> TRUE]

----------------------------------------------------------------------------
(* Hash operations. *)

\* hash_store[key]: the entry, created empty when absent
HashAt(hs, key) == IF Has(hs, key) THEN hs[key] ELSE EmptyMap

\* hset(key, field, value)
hset(db, key, field, value) ==
    [db |-> [db EXCEPT !.hs = Put(db.hs, key, Put(HashAt(db.hs, key), field, value))],
     ret |-> TRUE]

\* hgetall(key): a copy of the hash, empty for an absent key; no purge
hgetall(db, key) == IF Has(db.hs, key) THEN db.hs[key] ELSE EmptyMap

\* hmset(key, fieldValues): the pairs are written in order; an empty vector
\* creates nothing
RECURSIVE hmsetLoop(_, _, _)
hmsetLoop(hs, key, fieldValues) ==
    IF fieldValues = <<>> THEN hs
    ELSE hmsetLoop(Put(hs, key, Put(HashAt(hs, key), Head(fieldValues)[1],
                                    Head(fieldValues)[2])),
                   key, Tail(fieldValues))

hmset(db, key, fieldValues) ==
    [db |-> [db EXCEPT !.hs = hmsetLoop(db.hs, key, fieldValues)], ret |-> TRUE]

\* hget(key, field, value); no purge
hget(db, key, field) ==
    IF Has(db.hs, key) /\ Has(db.hs[key], field)
    THEN [db |-> db, ret |-> TRUE, val |-> db.hs[key][field]]
    ELSE [db |-> db, ret |-> FALSE, val |-> EmptyStr]

\* hexists(key, field)
hexists(db, key, field) ==
    [db |-> db, ret |-> Has(db.hs, key) /\ Has(db.hs[key], field)]

\* an hdel that erases the key's whole hash
hdelWholeKey(db, key, field) ==
    IF Has(db.hs, key)
    THEN [db |-> [db EXCEPT !.hs = Put(db.hs, key, EmptyMap)],
          ret |-> Has(db.hs[key], field)]
    ELSE [db |-> db, ret |-> FALSE]

\* hdel(key, field): erase(field) > 0; an emptied hash keeps its entry
hdel(db, key, field) ==
    IF Has(db.hs, key)
    THEN [db |-> [db EXCEPT !.hs = Put(db.hs, key, Erase(db.hs[key], field))],
          ret |-> Has(db.hs[key], field)]
    ELSE [db |-> db, ret |-> FALSE]

----------------------------------------------------------------------------
(* Persistence: dump writes one line per key, load reads them back.        *)

SP == " "
COLON == ":"
NL == "\n"
TAB == "\t"

\* std::isspace, which operator>> skips and stops at
IsSpace(c) == c \in {SP, TAB, NL}

RECURSIVE Concat(_)
\* the concatenation of a sequence of strings
Concat(ss) == IF ss = <<>> THEN <<>> ELSE Head(ss) \o Concat(Tail(ss))

RECURSIVE Orders(_)
\* the orders in which an unordered_map may iterate over the keys S
Orders(S) ==
    IF S = {} THEN {<<>>}
    ELSE UNION {{<<x>> \o o : o \in Orders(S \ {x})} : x \in S}

\* ofs << "K " << key << " " << value << "\n"
KLine(key, value) == <<"K", SP>> \o key \o <<SP>> \o value \o <<NL>>

\* ofs << "L " << key; then " " << item for every item; then "\n"
LLine(key, items) ==
    <<"L", SP>> \o key \o Concat([i \in 1 .. Len(items) |-> <<SP>> \o items[i]]) \o <<NL>>

\* ofs << "H " << key; then " " << field << ":" << value in the hash's
\* iteration order fo; then "\n"
HLine(key, hash, fo) ==
    <<"H", SP>> \o key
    \o Concat([i \in 1 .. Len(fo) |-> <<SP>> \o fo[i] \o <<COLON>> \o hash[fo[i]]])
    \o <<NL>>

\* the hash lines, keys in the order ho, for every iteration order of each hash
RECURSIVE HLines(_, _)
HLines(hs, ho) ==
    IF ho = <<>> THEN {<<>>}
    ELSE {HLine(Head(ho), hs[Head(ho)], fo) \o rest :
              fo \in Orders(DOMAIN hs[Head(ho)]), rest \in HLines(hs, Tail(ho))}

\* the files dump can write: the K lines, the L lines, the H lines, each group
\* in the iteration order of its map
DumpOutputs(db) ==
    {Concat([i \in 1 .. Len(ko) |-> KLine(ko[i], db.kv[ko[i]])])
     \o Concat([i \in 1 .. Len(lo) |-> LLine(lo[i], db.ls[lo[i]])])
     \o h :
        ko \in Orders(DOMAIN db.kv), lo \in Orders(DOMAIN db.ls),
        h \in UNION {HLines(db.hs, ho) : ho \in Orders(DOMAIN db.hs)}}

\* the position of the first element of s satisfying c = ch, or 0
RECURSIVE Find(_, _, _)
Find(s, ch, i) ==
    IF i > Len(s) THEN 0 ELSE IF s[i] = ch THEN i ELSE Find(s, ch, i + 1)

\* std::getline until it fails: the text is cut at every "\n"; a last line
\* without "\n" counts when it is not empty
RECURSIVE GetLines(_)
GetLines(text) ==
    IF text = <<>> THEN <<>>
    ELSE LET n == Find(text, NL, 1)
         IN IF n = 0 THEN <<text>>
            ELSE <<SubSeq(text, 1, n - 1)>> \o GetLines(SubSeq(text, n + 1, Len(text)))

\* the stream with its leading whitespace skipped
RECURSIVE SkipSpace(_)
SkipSpace(s) == IF s # <<>> /\ IsSpace(Head(s)) THEN SkipSpace(Tail(s)) ELSE s

\* the length of the word the stream starts with
RECURSIVE WordLen(_)
WordLen(s) == IF s = <<>> \/ IsSpace(Head(s)) THEN 0 ELSE 1 + WordLen(Tail(s))

\* iss >> word until it fails: the whitespace-separated words of the stream
RECURSIVE Words(_)
Words(s) ==
    LET t == SkipSpace(s)
        n == WordLen(t)
    IN IF t = <<>> THEN <<>>
       ELSE <<SubSeq(t, 1, n)>> \o Words(SubSeq(t, n + 1, Len(t)))

\* iss >> key: the next word, or the empty string when the stream has none
WordAt(ws, i) == IF i <= Len(ws) THEN ws[i] ELSE EmptyStr

\* the words after the key
Rest(ws) == IF ws = <<>> THEN <<>> ELSE Tail(ws)

\* the hash built from the words field:value of an H line; a word without
\* a colon is dropped, a repeated field keeps its last value
RECURSIVE ParseHash(_, _)
ParseHash(ws, hash) ==
    IF ws = <<>> THEN hash
    ELSE LET pair == Head(ws)
             pos == Find(pair, COLON, 1)
         IN ParseHash(Tail(ws),
                      IF pos = 0 THEN hash
                      ELSE Put(hash, SubSeq(pair, 1, pos - 1),
                               SubSeq(pair, pos + 1, Len(pair))))

\* a list built with insert at the front instead of push_back
RECURSIVE ParseListReversed(_)
ParseListReversed(ws) ==
    IF ws = <<>> THEN <<>> ELSE Append(ParseListReversed(Tail(ws)), Head(ws))

\* the list read from the words of an L line, in the order read
ParseList(ws) == ws

TypeTags == {"K", "L", "H", "other"}

\* the body of load's loop for a line whose type character is tag and whose
\* remaining words are ws
StoreLine(db, tag, ws) ==
    IF tag = "K" THEN [db EXCEPT !.kv = Put(db.kv, WordAt(ws, 1), WordAt(ws, 2))]
    ELSE IF tag = "L"
         THEN [db EXCEPT !.ls = Put(db.ls, WordAt(ws, 1), ParseList(Rest(ws)))]
    ELSE IF tag = "H"
         THEN [db EXCEPT !.hs = Put(db.hs, WordAt(ws, 1), ParseHash(Rest(ws), EmptyMap))]
    ELSE db

\* one line of the file: iss >> type reads the first character after the
\* leading whitespace.  On a line with none, the extraction fails, type is
\* read uninitialized (any tag) and every later extraction fails too.
LoadLine(db, line) ==
    LET t == SkipSpace(line)
    IN IF t = <<>>
       THEN {StoreLine(db, tag, <<>>) : tag \in TypeTags}
       ELSE {StoreLine(db, IF Head(t) \in {"K", "L", "H"} THEN Head(t) ELSE "other",
                       Words(Tail(t)))}

\* the maps load can leave after the lines, starting from any of dbs
RECURSIVE LoadLines(_, _)
LoadLines(dbs, lines) ==
    IF lines = <<>> THEN dbs
    ELSE LoadLines(UNION {LoadLine(db, Head(lines)) : db \in dbs}, Tail(lines))

\* load(filename): the outcomes it can have on the file content f.  The
\* three stores are cleared first, expiry_map is not.
load(db, f) ==
    IF f = NoFile THEN {[db |-> db, ret |-> FALSE]}
    ELSE {[db |-> d, ret |-> TRUE] :
             d \in LoadLines({flushAll(db).db}, GetLines(f))}

\* dump(filename): the outcomes it can have; it fails when the file cannot
\* be opened for writing, and then writes nothing
dump(db, f, writable) ==
    IF ~writable THEN {[file |-> f, ret |-> FALSE]}
    ELSE {[file |-> out, ret |-> TRUE] : out \in DumpOutputs(db)}

----------------------------------------------------------------------------
(* The calls of one caller, each a single step: the whole body runs with   *)
(* db_mutex held.                                                          *)

Commit(db) ==
    /\ kv_store' = db.kv
    /\ list_store' = db.ls
    /\ hash_store' = db.hs
    /\ expiry_map' = db.ex

\* the record of a completed call; purged holds the keys its purgeExpired erased
Done(op, key, arg, ret, val, purged) ==
    last' = [op |-> op, key |-> key, arg |-> arg, ret |-> ret, val |-> val,
             purged |-> purged]

NoCall == [op |-> "none", key |-> EmptyStr, arg |-> EmptyStr, ret |-> FALSE,
           val |-> EmptyStr, purged |-> {}]

Gone == ExpiredKeys(expiry_map, now)

Sequential == UNCHANGED <<now, file, db_mutex, pc, call>>

\* the stores hold fewer than n strings, items and fields: a write is made
Room(n) == Entries(kv_store, list_store, hash_store) < n

\* the stores hold at most n strings, items and fields after the step
Fits(n) == Entries(kv_store', list_store', hash_store') <= n

FlushAll ==
    /\ Commit(flushAll(Db).db)
    /\ Done("flushAll", EmptyStr, EmptyStr, TRUE, EmptyStr, {})
    /\ Sequential

Set(key, value) ==
    /\ Commit(set(Db, key, value).db)
    /\ Done("set", key, value, TRUE, EmptyStr, {})
    /\ Sequential

Get(key) ==
    LET r == get(Db, now, key)
    IN /\ Commit(r.db)
       /\ Done("get", key, EmptyStr, r.ret, r.val, Gone)
       /\ Sequential

KeysCall ==
    LET r == keys(Db, now)
    IN /\ Commit(r.db)
       /\ Done("keys", EmptyStr, EmptyStr, TRUE, r.val, Gone)
       /\ Sequential

Type(key) ==
    LET r == type(Db, now, key)
    IN /\ Commit(r.db)
       /\ Done("type", key, EmptyStr, TRUE, r.val, Gone)
       /\ Sequential

Del(key) ==
    LET r == del(Db, now, key)
    IN /\ Commit(r.db)
       /\ Done("del", key, r.erased, r.ret, EmptyStr, Gone)
       /\ Sequential

Expire(key, seconds) ==
    LET r == expire(Db, now, key, seconds)
    IN /\ Commit(r.db)
       /\ Done("expire", key, seconds, r.ret, EmptyStr, Gone)
       /\ Sequential

\* purgeExpired() called directly: it is a public member
PurgeExpired ==
    /\ Commit(purgeExpired(Db, now))
    /\ Done("purgeExpired", EmptyStr, EmptyStr, TRUE, EmptyStr, Gone)
    /\ Sequential

Rename(oldKey, newKey) ==
    LET r == rename(Db, now, oldKey, newKey)
    IN /\ Commit(r.db)
       /\ Done("rename", oldKey, newKey, r.ret, EmptyStr, Gone)
       /\ Sequential

LPush(key, value) ==
    /\ Commit(lpush(Db, key, value).db)
    /\ Done("lpush", key, value, TRUE, EmptyStr, {})
    /\ Sequential

RPush(key, value) ==
    /\ Commit(rpush(Db, key, value).db)
    /\ Done("rpush", key, value, TRUE, EmptyStr, {})
    /\ Sequential

HSet(key, field, value) ==
    /\ Commit(hset(Db, key, field, value).db)
    /\ Done("hset", key, <<field, value>>, TRUE, EmptyStr, {})
    /\ Sequential

HMSet(key, fieldValues) ==
    /\ Commit(hmset(Db, key, fieldValues).db)
    /\ Done("hmset", key, fieldValues, TRUE, EmptyStr, {})
    /\ Sequential

LPop(key) ==
    LET r == lpop(Db, key)
    IN /\ Commit(r.db)
       /\ Done("lpop", key, EmptyStr, r.ret, r.val, {})
       /\ Sequential

RPop(key) ==
    LET r == rpop(Db, key)
    IN /\ Commit(r.db)
       /\ Done("rpop", key, EmptyStr, r.ret, r.val, {})
       /\ Sequential

LRem(key, count, value) ==
    \E limit \in Negated(count) :
        LET r == lrem(Db, key, count, value, limit)
        IN /\ Commit(r.db)
           /\ Done("lrem", key, <<count, value>>, r.ret, EmptyStr, {})
           /\ Sequential

LIndex(key, index) ==
    LET r == lindex(Db, key, index)
    IN /\ Commit(r.db)
       /\ Done("lindex", key, index, r.ret, r.val, {})
       /\ Sequential

LSet(key, index, value) ==
    LET r == lset(Db, key, index, value)
    IN /\ Commit(r.db)
       /\ Done("lset", key, <<index, value>>, r.ret, EmptyStr, {})
       /\ Sequential

HGet(key, field) ==
    LET r == hget(Db, key, field)
    IN /\ Commit(r.db)
       /\ Done("hget", key, field, r.ret, r.val, {})
       /\ Sequential

HExists(key, field) ==
    LET r == hexists(Db, key, field)
    IN /\ Commit(r.db)
       /\ Done("hexists", key, field, r.ret, EmptyStr, {})
       /\ Sequential

HDel(key, field) ==
    LET r == hdel(Db, key, field)
    IN /\ Commit(r.db)
       /\ Done("hdel", key, field, r.ret, EmptyStr, {})
       /\ Sequential

Dump(writable) ==
    \E r \in dump(Db, file, writable) :
        /\ file' = r.file
        /\ Done("dump", EmptyStr, writable, r.ret, EmptyStr, {})
        /\ UNCHANGED <<kv_store, list_store, hash_store, expiry_map, now,
                       db_mutex, pc, call>>

Load ==
    \E r \in load(Db, file) :
        /\ Commit(r.db)
        /\ Done("load", EmptyStr, EmptyStr, r.ret, EmptyStr, {})
        /\ Sequential

\* the steady clock advances by a second
Tick ==
    /\ now < MaxTime
    /\ now' = now + 1
    /\ last' = [NoCall EXCEPT !.op = "tick"]
    /\ UNCHANGED <<kv_store, list_store, hash_store, expiry_map, file,
                   db_mutex, pc, call>>

----------------------------------------------------------------------------
(* The store driven by one caller. *)

Init ==
    /\ kv_store = EmptyMap
    /\ list_store = EmptyMap
    /\ hash_store = EmptyMap
    /\ expiry_map = EmptyMap
    /\ now = 0
    /\ file = NoFile
    /\ last = NoCall
    /\ db_mutex = Free
    /\ pc = [t \in Threads |-> "idle"]
    /\ call = [t \in Threads |-> NoCall]

FieldValueLists ==
    LET P == Fields \X HashVals
    IN {<<>>} \cup {<<p>> : p \in P} \cup (P \X P)

Next ==
    \/ FlushAll
    \/ \E k \in Keys, v \in Vals : Room(MaxEntries) /\ Set(k, v)
    \/ \E k \in Keys : Get(k)
    \/ KeysCall
    \/ \E k \in Keys : Type(k)
    \/ \E k \in Keys : Del(k)
    \/ \E k \in Keys, s \in TTLs : Expire(k, s)
    \/ PurgeExpired
    \/ \E k \in Keys, n \in Keys : Rename(k, n)
    \/ \E k \in Keys, v \in Vals : Room(MaxEntries) /\ LPush(k, v)
    \/ \E k \in Keys, v \in Vals : Room(MaxEntries) /\ RPush(k, v)
    \/ \E k \in Keys, f \in Fields, v \in HashVals : Room(MaxEntries) /\ HSet(k, f, v)
    \/ \E k \in Keys, fv \in FieldValueLists : Room(MaxEntries) /\ HMSet(k, fv) /\ Fits(MaxEntries)
    \/ Tick

Spec == Init /\ [][Next]_vars

----------------------------------------------------------------------------
(* The persistence scenario: the stores are populated, dumped, flushed and *)
(* loaded.  Populating stops once the file is written.                     *)

Populating == file = NoFile

PersistNext ==
    \/ \E k \in DumpKeys, v \in DumpVals :
          Populating /\ Room(MaxDumpEntries) /\ Set(k, v)
    \/ \E k \in DumpKeys, v \in DumpVals :
          Populating /\ Room(MaxDumpEntries) /\ RPush(k, v)
    \/ \E k \in DumpKeys, f \in DumpFields, v \in DumpHashVals :
          Populating /\ Room(MaxDumpEntries) /\ HSet(k, f, v)
    \/ \E w \in BOOLEAN : Populating /\ Dump(w)
    \/ FlushAll
    \/ Load

PersistSpec == Init /\ [][PersistNext]_vars

----------------------------------------------------------------------------
(* The reload scenario: keys are given deadlines, the store is dumped and  *)
(* loaded, and the clock runs on.                                          *)

ReloadNext ==
    \/ \E k \in Keys, v \in Vals : Populating /\ Room(MaxEntries) /\ Set(k, v)
    \/ \E k \in Keys, v \in Vals : Populating /\ Room(MaxEntries) /\ RPush(k, v)
    \/ \E k \in Keys, s \in TTLs : Expire(k, s)
    \/ \E w \in BOOLEAN : Populating /\ Dump(w)
    \/ FlushAll
    \/ Load
    \/ \E k \in Keys : Get(k)
    \/ Tick

ReloadSpec == Init /\ [][ReloadNext]_vars

----------------------------------------------------------------------------
(* The list scenario: strings and lists are written under the same keys,   *)
(* the lists are popped, trimmed, read and overwritten by index, and keys  *)
(* are given deadlines.                                                    *)

\* the counts lrem is called with, and the indices of lindex and lset
Counts == {IntMin} \cup ((0 - MaxListLen) .. MaxListLen)
Indices == {IntMin, IntMax} \cup ((0 - MaxListLen - 1) .. MaxListLen)

\* the scenario works on one key
ListKeys == {<<"a">>}

ListNext ==
    \/ \E k \in ListKeys, v \in Vals : Room(MaxListLen) /\ Set(k, v)
    \/ \E k \in ListKeys : Type(k)
    \/ \E k \in ListKeys, v \in Vals : Room(MaxListLen) /\ LPush(k, v)
    \/ \E k \in ListKeys, v \in Vals : Room(MaxListLen) /\ RPush(k, v)
    \/ \E k \in ListKeys : LPop(k)
    \/ \E k \in ListKeys : RPop(k)
    \/ \E k \in ListKeys, c \in Counts, v \in Vals : LRem(k, c, v)
    \/ \E k \in ListKeys, i \in Indices : LIndex(k, i)
    \/ \E k \in ListKeys, i \in Indices, v \in Vals : LSet(k, i, v)
    \/ \E k \in ListKeys, s \in TTLs : Expire(k, s)
    \/ Tick

ListSpec == Init /\ [][ListNext]_vars

----------------------------------------------------------------------------
(* The hash scenario: fields are written, read, tested and removed, and    *)
(* keys are deleted or expire.                                              *)

HashFields == {<<"f">>, <<"g">>}

HashNext ==
    \/ \E k \in Keys, f \in HashFields, v \in Vals : Room(MaxEntries) /\ HSet(k, f, v)
    \/ \E k \in Keys, f \in HashFields : HGet(k, f)
    \/ \E k \in Keys, f \in HashFields : HExists(k, f)
    \/ \E k \in Keys, f \in HashFields : HDel(k, f)
    \/ \E k \in Keys : Del(k)
    \/ \E k \in Keys : Type(k)
    \/ \E k \in Keys, s \in TTLs : Expire(k, s)
    \/ Tick

HashSpec == Init /\ [][HashNext]_vars

----------------------------------------------------------------------------
(* Concurrent callers.  A thread calls set, get, expire, rename or         *)
(* purgeExpired; the first four construct a std::lock_guard on db_mutex    *)
(* and run their body statement by statement, purgeExpired runs its loop   *)
(* without taking the mutex.  Container operations of racing threads are   *)
(* interleaved one whole operation at a time.                              *)

ConcVals == {<<"x">>}

Locked == {"set", "get", "expire", "rename"}

\* a call's arguments and locals: val holds purgeExpired's local now
NewCall(op, key, arg) == [NoCall EXCEPT !.op = op, !.key = key, !.arg = arg]

ThreadStep(t, label, c) ==
    /\ pc' = [pc EXCEPT ![t] = label]
    /\ call' = [call EXCEPT ![t] = c]
    /\ UNCHANGED <<now, file, last>>

StoresUnchanged == UNCHANGED <<kv_store, list_store, hash_store, expiry_map>>

\* the thread enters one of the locking operations
TCall(t, op, key, arg) ==
    /\ pc[t] = "idle"
    /\ op \in Locked
    /\ ThreadStep(t, "lock", NewCall(op, key, arg))
    /\ StoresUnchanged
    /\ UNCHANGED db_mutex

\* std::lock_guard<std::mutex> lock(db_mutex)
TLock(t) ==
    /\ pc[t] = "lock"
    /\ db_mutex = Free
    /\ db_mutex' = t
    /\ ThreadStep(t, IF call[t].op = "set" THEN "set_body" ELSE "purge", call[t])
    /\ StoresUnchanged

\* kv_store[key] = value
TSetBody(t) ==
    /\ pc[t] = "set_body"
    /\ Commit(set(Db, call[t].key, call[t].arg).db)
    /\ ThreadStep(t, "unlock", [call[t] EXCEPT !.ret = TRUE])
    /\ UNCHANGED db_mutex

\* the purgeExpired() that opens get, expire and rename
TPurge(t) ==
    /\ pc[t] = "purge"
    /\ Commit(purgeExpired(Db, now))
    /\ ThreadStep(t, call[t].op \o "_body", call[t])
    /\ UNCHANGED db_mutex

\* get's find and copy
TGetBody(t) ==
    /\ pc[t] = "get_body"
    /\ ThreadStep(t, "unlock",
                  IF Has(kv_store, call[t].key)
                  THEN [call[t] EXCEPT !.ret = TRUE, !.val = kv_store[call[t].key]]
                  ELSE [call[t] EXCEPT !.ret = FALSE])
    /\ StoresUnchanged
    /\ UNCHANGED db_mutex

\* expire's existence test and expiry_map[key] = now + seconds
TExpireBody(t) ==
    LET key == call[t].key
        exists == Has(kv_store, key) \/ Has(list_store, key) \/ Has(hash_store, key)
    IN /\ pc[t] = "expire_body"
       /\ expiry_map' = IF exists THEN Put(expiry_map, key, now + call[t].arg)
                         ELSE expiry_map
       /\ ThreadStep(t, "unlock", [call[t] EXCEPT !.ret = exists])
       /\ UNCHANGED <<kv_store, list_store, hash_store, db_mutex>>

\* rename: itKv = kv_store.find(oldKey); kv_store[newKey] = itKv->second
TRenameKvPut(t) ==
    LET found == Has(kv_store, call[t].key)
    IN /\ pc[t] = "rename_body"
       /\ kv_store' = IF found THEN Put(kv_store, call[t].arg, kv_store[call[t].key])
                       ELSE kv_store
       /\ ThreadStep(t, IF found THEN "rename_kv_erase" ELSE "rename_rest",
                     [call[t] EXCEPT !.ret = found])
       /\ UNCHANGED <<list_store, hash_store, expiry_map, db_mutex>>

\* rename: kv_store.erase(itKv)
TRenameKvErase(t) ==
    /\ pc[t] = "rename_kv_erase"
    /\ kv_store' = Erase(kv_store, call[t].key)
    /\ ThreadStep(t, "rename_rest", call[t])
    /\ UNCHANGED <<list_store, hash_store, expiry_map, db_mutex>>

\* rename: the list, hash and expiry blocks
TRenameRest(t) ==
    LET o == call[t].key
        n == call[t].arg
    IN /\ pc[t] = "rename_rest"
       /\ list_store' = MoveKey(list_store, o, n)
       /\ hash_store' = MoveKey(hash_store, o, n)
       /\ expiry_map' = MoveKey(expiry_map, o, n)
       /\ ThreadStep(t, "unlock",
                     [call[t] EXCEPT !.ret = call[t].ret \/ Has(list_store, o)
                                              \/ Has(hash_store, o)])
       /\ UNCHANGED <<kv_store, db_mutex>>

\* the lock_guard's destructor, at the return
TUnlock(t) ==
    /\ pc[t] = "unlock"
    /\ db_mutex' = Free
    /\ ThreadStep(t, "idle", call[t])
    /\ StoresUnchanged

\* purgeExpired() called directly: auto now = steady_clock::now(), no lock
TPurgeCall(t) ==
    /\ pc[t] = "idle"
    /\ ThreadStep(t, "purge_loop", [NewCall("purgeExpired", EmptyStr, EmptyStr)
                                       EXCEPT !.val = now])
    /\ StoresUnchanged
    /\ UNCHANGED db_mutex

\* one iteration of the loop that finds now > it->second: the key leaves the
\* three stores and the expiry map
TPurgeErase(t) ==
    /\ pc[t] = "purge_loop"
    /\ \E k \in ExpiredKeys(expiry_map, call[t].val) :
          /\ kv_store' = Erase(kv_store, k)
          /\ list_store' = Erase(list_store, k)
          /\ hash_store' = Erase(hash_store, k)
          /\ expiry_map' = Erase(expiry_map, k)
    /\ ThreadStep(t, "purge_loop", call[t])
    /\ UNCHANGED db_mutex

\* the loop reaches expiry_map.end()
TPurgeReturn(t) ==
    /\ pc[t] = "purge_loop"
    /\ ExpiredKeys(expiry_map, call[t].val) = {}
    /\ ThreadStep(t, "idle", call[t])
    /\ StoresUnchanged
    /\ UNCHANGED db_mutex

ConcTick ==
    /\ now < MaxTime
    /\ now' = now + 1
    /\ UNCHANGED <<kv_store, list_store, hash_store, expiry_map, file, last,
                   db_mutex, pc, call>>

ConcNext ==
    \/ \E t \in Threads, k \in Keys, v \in ConcVals : TCall(t, "set", k, v)
    \/ \E t \in Threads, k \in Keys : TCall(t, "get", k, EmptyStr)
    \/ \E t \in Threads, k \in Keys, s \in TTLs : TCall(t, "expire", k, s)
    \/ \E t \in Threads, k \in Keys, n \in Keys : TCall(t, "rename", k, n)
    \/ \E t \in Threads : TLock(t)
    \/ \E t \in Threads : TSetBody(t)
    \/ \E t \in Threads : TPurge(t)
    \/ \E t \in Threads : TGetBody(t)
    \/ \E t \in Threads : TExpireBody(t)
    \/ \E t \in Threads : TRenameKvPut(t)
    \/ \E t \in Threads : TRenameKvErase(t)
    \/ \E t \in Threads : TRenameRest(t)
    \/ \E t \in Threads : TUnlock(t)
    \/ \E t \in Threads : TPurgeCall(t)
    \/ \E t \in Threads : TPurgeErase(t)
    \/ \E t \in Threads : TPurgeReturn(t)
    \/ ConcTick

ConcSpec == Init /\ [][ConcNext]_vars

----------------------------------------------------------------------------
(* Properties of the store driven by one caller. *)

AllKeys == (DOMAIN kv_store) \cup (DOMAIN list_store) \cup (DOMAIN hash_store)

\* the stores that hold key k
Holders(db, k) ==
    {s \in {"string", "list", "hash"} :
        \/ s = "string" /\ Has(db.kv, k)
        \/ s = "list" /\ Has(db.ls, k)
        \/ s = "hash" /\ Has(db.hs, k)}

PurgeOps == {"get", "keys", "type", "del", "expire", "rename"}

\* C1: type exclusivity: in every reachable state no key is held by more than
\* one of the string, list and hash stores.
C1_TypeExclusivity ==
    \A k \in AllKeys : Cardinality(Holders(Db, k)) <= 1

\* C2 as stated: set(k, v) immediately followed by get(k) reports found and
\* returns v, whatever the state before the set.
C2_SetThenGet ==
    last.op = "set" =>
        LET r == get(Db, now, last.key)
        IN r.ret /\ r.val = last.arg

\* C2 amended: set(k, v) followed by get(k) returns v, unless k carries an
\* expiry deadline earlier than the time of the get, in which case the get
\* reports absent.
C2_SetThenGetUnlessExpired ==
    last.op = "set" =>
        \A t \in now .. MaxTime :
            LET r == get(Db, t, last.key)
                passed == Has(expiry_map, last.key) /\ t > expiry_map[last.key]
            IN IF passed THEN ~r.ret ELSE r.ret /\ r.val = last.arg

\* a set has overwritten a key that carries a deadline not yet passed, and
\* the get finds the new value
C2_Witness ==
    /\ last.op = "set"
    /\ Has(expiry_map, last.key)
    /\ now <= expiry_map[last.key]
    /\ get(Db, now, last.key).ret

\* after a successful expire(k, t) at time T on a string key, a get(k) at
\* any time up to T + t returns k's value
ExpireKeepsUntilDeadline ==
    (last.op = "expire" /\ last.ret /\ Has(kv_store, last.key)) =>
        \A t \in now .. (now + last.arg) :
            LET r == get(Db, t, last.key)
            IN r.ret /\ r.val = kv_store[last.key]

\* key k is held by no store, so get reports absent and type is "none"
Absent(db, t, k) ==
    /\ Holders(db, k) = {}
    /\ ~get(db, t, k).ret
    /\ type(db, t, k).val = "none"

\* a string key k whose deadline has passed is absent after this step, when
\* the step is a purge-triggering call
PurgedByStep(k) ==
    (/\ Has(kv_store, k) /\ Has(expiry_map, k) /\ now > expiry_map[k]
     /\ last'.op \in PurgeOps)
        => Absent(Db', now', k)

\* C3 as stated: a get up to the deadline still returns the value, and the
\* first purge-triggering call (get, keys, type, del, expire, rename) after
\* the deadline leaves k in no store.
C3_ExpiryTiming ==
    [][ExpireKeepsUntilDeadline' /\ \A k \in Keys : PurgedByStep(k)]_vars

\* the maps each purge-triggering call leaves when made at time t, with the
\* key a successful rename has moved a live key onto
AfterPurgeCall(t) ==
    {[db |-> get(Db, t, j).db, onto |-> {}] : j \in Keys}
    \cup {[db |-> keys(Db, t).db, onto |-> {}]}
    \cup {[db |-> type(Db, t, j).db, onto |-> {}] : j \in Keys}
    \cup {[db |-> del(Db, t, j).db, onto |-> {}] : j \in Keys}
    \cup {[db |-> expire(Db, t, j, s).db, onto |-> {}] : j \in Keys, s \in TTLs}
    \cup {[db |-> rename(Db, t, o, n).db,
           onto |-> IF rename(Db, t, o, n).ret THEN {n} ELSE {}] :
              o \in Keys, n \in Keys}

\* C3 amended: a get up to the deadline still returns the value, and the
\* first purge-triggering call after the deadline leaves k in no store,
\* except that rename(o, k) with o a live key purges k and then re-creates
\* it with o's data.
C3_ExpiryTimingExceptRenameOnto ==
    /\ ExpireKeepsUntilDeadline
    /\ \A k \in Keys :
          (Has(kv_store, k) /\ Has(expiry_map, k)) =>
              \A t \in now .. MaxTime :
                  t > expiry_map[k] =>
                      \A c \in AfterPurgeCall(t) : k \in c.onto \/ Absent(c.db, t, k)

\* a get has purged the key it asks for and reports it absent
C3_Witness ==
    /\ last.op = "get"
    /\ last.key \in last.purged
    /\ ~last.ret
    /\ Absent(Db, now, last.key)

\* C4: after del(k), k is in none of the three stores: a following get(k)
\* reports absent, type(k) is "none" and keys() does not list k.
C4_DelRemoves ==
    last.op = "del" =>
        \A t \in now .. MaxTime :
            /\ Absent(Db, t, last.key)
            /\ last.key \notin DOMAIN keys(Db, t).val

\* a del has erased a key that some store held
C4_Witness ==
    /\ last.op = "del"
    /\ last.arg = TRUE
    /\ Holders(Db, last.key) = {}

\* C5: del(k) returns true exactly when one of the stores held k after the
\* purge (last.arg is del's local erased).
C5_DelReturnsErased ==
    last.op = "del" => (last.ret <=> last.arg)

\* C6: after del(k) the expiry map has no entry for k.
C6_DelClearsExpiry ==
    last.op = "del" => ~Has(expiry_map, last.key)

\* what rename(o, n) must do to the maps p it finds after its purge
RenameContract(p, o, n, ret, after, t) ==
    /\ ret <=> (Holders(p, o) # {})
    /\ ret =>
        /\ get(after, t, n).ret = Has(p.kv, o)
        /\ Has(p.kv, o) => get(after, t, n).val = p.kv[o]
        /\ lget(after, n) = lget(p, o)
        /\ hgetall(after, n) = hgetall(p, o)
        /\ (o # n) => Holders(after, o) = {}

\* C7: rename(oldKey, newKey), oldKey = newKey included, returns true iff
\* oldKey is held after the purge; then newKey holds exactly what oldKey held
\* and oldKey, when different, is in no store.
C7_Rename ==
    [][last'.op = "rename" =>
          RenameContract(purgeExpired(Db, now), last'.key, last'.arg, last'.ret,
                         Db', now')]_vars

----------------------------------------------------------------------------
(* Round trip and reload. *)

\* every string held: keys, values, list items, hash fields and hash values
StoredStrings(db) ==
    (DOMAIN db.kv) \cup (DOMAIN db.ls) \cup (DOMAIN db.hs)
    \cup {db.kv[k] : k \in DOMAIN db.kv}
    \cup UNION {{db.ls[k][i] : i \in 1 .. Len(db.ls[k])} : k \in DOMAIN db.ls}
    \cup UNION {DOMAIN db.hs[k] : k \in DOMAIN db.hs}
    \cup UNION {{db.hs[k][f] : f \in DOMAIN db.hs[k]} : k \in DOMAIN db.hs}

ListItems(db) ==
    UNION {{db.ls[k][i] : i \in 1 .. Len(db.ls[k])} : k \in DOMAIN db.ls}

HasNone(s, chars) == \A i \in 1 .. Len(s) : s[i] \notin chars

\* dump, flushAll, load starting from the maps db with the file just written:
\* every outcome of the load succeeds and gives back db's three stores, so
\* keys, get, lget and hgetall answer as before the dump
RoundTrips(db, f, t) ==
    \A r \in load(flushAll(db).db, f) :
        /\ r.ret
        /\ r.db.kv = db.kv /\ r.db.ls = db.ls /\ r.db.hs = db.hs
        /\ keys(r.db, t).val = keys(db, t).val
        /\ \A k \in DOMAIN keys(db, t).val :
              /\ get(r.db, t, k) = get(db, t, k)
              /\ lget(r.db, k) = lget(db, k)
              /\ hgetall(r.db, k) = hgetall(db, k)

\* C8 as stated: when no stored string holds a space or a colon, dump then
\* flushAll then load gives back the string, list and hash stores.
C8_RoundTrip ==
    (/\ last.op = "dump" /\ last.ret
     /\ \A s \in StoredStrings(Db) : HasNone(s, {" ", ":"}))
        => RoundTrips(Db, file, now)

\* C8 amended: the round trip gives back the stores when no stored string
\* holds whitespace (space, tab, line break) or a colon and no key and no
\* list item is the empty string.
C8_RoundTripOfPlainStrings ==
    (/\ last.op = "dump" /\ last.ret
     /\ \A s \in StoredStrings(Db) : HasNone(s, {" ", "\t", "\n", ":"})
     /\ \A s \in AllKeys \cup ListItems(Db) : s # <<>>)
        => RoundTrips(Db, file, now)

\* a load has read a dumped file back into a two-item list, in order, and
\* the stores it built dump to that very file
C8_Witness ==
    /\ last.op = "load" /\ last.ret
    /\ \E k \in DOMAIN list_store : list_store[k] = <<(<<"x">>), (<<"y">>)>>
    /\ file \in DumpOutputs(Db)

\* C9: after a successful load no key of the store has an expiry deadline.
C9_LoadLeavesNoDeadline ==
    (last.op = "load" /\ last.ret) => \A k \in AllKeys : ~Has(expiry_map, k)

----------------------------------------------------------------------------
(* Locking. *)

\* the thread is between the entry and the return of an operation's body,
\* reading or writing the stores or the expiry map
InStore(t) == pc[t] \notin {"idle", "lock"}

\* a thread inside the store holds db_mutex
HoldsMutexInStore == \A t \in Threads : InStore(t) => db_mutex = t

\* C10: every operation that reads or writes the stores or the expiry map,
\* the public purgeExpired included, is atomic with respect to every other:
\* no two threads are inside the store at the same time, and no thread is
\* inside a get while another is between rename's insertion at newKey and
\* its removal of oldKey.
C10_OneThreadInStore ==
    /\ \A t, u \in Threads : (t # u /\ InStore(t)) => ~InStore(u)
    /\ \A t, u \in Threads :
          (pc[t] = "rename_kv_erase" /\ call[u].op = "get") => ~InStore(u)

\* what the mutex does give: a get never runs between rename's insertion and
\* its removal
GetNeverSeesHalfRename ==
    \A t, u \in Threads :
        (pc[t] = "rename_kv_erase" /\ call[u].op = "get") => ~InStore(u)

----------------------------------------------------------------------------
(* Failed calls. *)

\* every call that can report failure, made on the present maps at time t:
\* the maps it leaves and whether it failed
FailingCalls(t) ==
    {[op |-> "get", db |-> get(Db, t, k).db, failed |-> ~get(Db, t, k).ret] : k \in Keys}
    \cup {[op |-> "lpop", db |-> lpop(Db, k).db, failed |-> ~lpop(Db, k).ret] : k \in Keys}
    \cup {[op |-> "rpop", db |-> rpop(Db, k).db, failed |-> ~rpop(Db, k).ret] : k \in Keys}
    \cup {[op |-> "lindex", db |-> lindex(Db, k, i).db, failed |-> ~lindex(Db, k, i).ret] :
             k \in Keys, i \in Indices}
    \cup {[op |-> "lset", db |-> lset(Db, k, i, v).db, failed |-> ~lset(Db, k, i, v).ret] :
             k \in Keys, i \in Indices, v \in Vals}
    \cup {[op |-> "hget", db |-> hget(Db, k, f).db, failed |-> ~hget(Db, k, f).ret] :
             k \in Keys, f \in HashFields}
    \cup {[op |-> "hdel", db |-> hdel(Db, k, f).db, failed |-> ~hdel(Db, k, f).ret] :
             k \in Keys, f \in HashFields}
    \cup {[op |-> "expire", db |-> expire(Db, t, k, s).db, failed |-> ~expire(Db, t, k, s).ret] :
             k \in Keys, s \in TTLs}
    \cup {[op |-> "rename", db |-> rename(Db, t, o, n).db, failed |-> ~rename(Db, t, o, n).ret] :
             o \in Keys, n \in Keys}
    \cup {[op |-> "load", db |-> r.db, failed |-> ~r.ret] : r \in load(Db, file)}

\* C11: a call that reports failure leaves the three stores and the expiry
\* map as they were, apart from the removal of the keys whose deadline has
\* passed; in particular a rename of a key held by no store changes no store
\* entry and no expiry entry.
C11_FailedCallsChangeNothing ==
    \A c \in FailingCalls(now) :
        c.failed => c.db \in {Db, purgeExpired(Db, now)}

----------------------------------------------------------------------------
(* expire *)

\* expire(k, s) at time t on the present maps: before stands for the expiry
\* map the deadlines of the other keys are compared with
ExpireContract(before, t, k, s) ==
    LET p == purgeExpired(Db, t)
        r == expire(Db, t, k, s)
    IN IF Holders(p, k) = {}
       THEN /\ ~r.ret
            /\ DOMAIN r.db.ex \subseteq DOMAIN expiry_map
            /\ Has(r.db.ex, k) => r.db.ex[k] = expiry_map[k]
       ELSE /\ r.ret
            /\ Has(r.db.ex, k) /\ r.db.ex[k] = t + s
            /\ \A j \in Keys \ {k} :
                  /\ Has(r.db.ex, j) <=> Has(before, j)
                  /\ Has(before, j) => r.db.ex[j] = before[j]

\* C12 as stated: expire(k, ttl) returns false and creates no expiry entry
\* when after the purge no store holds k; otherwise it returns true, k's
\* deadline becomes now + ttl, and the deadlines of all other keys are what
\* they were before the call.
C12_ExpireContract ==
    \A k \in Keys, s \in TTLs : ExpireContract(expiry_map, now, k, s)

\* C12 amended: the same, with the deadlines of the other keys compared with
\* what the purge at the head of expire leaves: the other keys whose deadline
\* has passed lose their deadline (and their data).
C12_ExpireContractAfterPurge ==
    \A k \in Keys, s \in TTLs :
        ExpireContract(purgeExpired(Db, now).ex, now, k, s)

\* an expire has given its key the deadline now + ttl while another key keeps
\* the deadline it had
C12_Witness ==
    /\ last.op = "expire" /\ last.ret
    /\ Has(expiry_map, last.key) /\ expiry_map[last.key] = now + last.arg
    /\ \E j \in Keys \ {last.key} : Has(expiry_map, j)

----------------------------------------------------------------------------
(* purgeExpired *)

\* key k has the same data and the same deadline in p as in db
SameKey(db, p, k) ==
    /\ Has(p.kv, k) <=> Has(db.kv, k)
    /\ Has(db.kv, k) => p.kv[k] = db.kv[k]
    /\ Has(p.ls, k) <=> Has(db.ls, k)
    /\ Has(db.ls, k) => p.ls[k] = db.ls[k]
    /\ Has(p.hs, k) <=> Has(db.hs, k)
    /\ Has(db.hs, k) => p.hs[k] = db.hs[k]
    /\ Has(p.ex, k) <=> Has(db.ex, k)
    /\ Has(db.ex, k) => p.ex[k] = db.ex[k]

\* C17: purgeExpired removes from the three stores and from the expiry map
\* exactly the keys whose deadline is earlier than the current time, leaves
\* the data and the deadline of every other key unchanged (a key with no
\* expiry entry is never removed), and run a second time at the same instant
\* changes nothing.
C17_PurgeExact ==
    \A t \in now .. MaxTime :
        LET p == purgeExpired(Db, t)
        IN /\ \A k \in Keys :
                 IF Has(expiry_map, k) /\ expiry_map[k] < t
                 THEN Holders(p, k) = {} /\ ~Has(p.ex, k)
                 ELSE SameKey(Db, p, k)
           /\ purgeExpired(p, t) = p

\* a purgeExpired has removed a key, data and deadline, and left in place a
\* key with no deadline
C17_Witness ==
    /\ last.op = "purgeExpired" /\ last.purged # {}
    /\ \A k \in last.purged : Holders(Db, k) = {} /\ ~Has(expiry_map, k)
    /\ \E k \in AllKeys : ~Has(expiry_map, k)

----------------------------------------------------------------------------
(* expire with a ttl of zero or less *)

\* the last call is a successful expire(k, ttl) with ttl <= 0
ExpiredAtOnce(k) ==
    last.op = "expire" /\ last.ret /\ last.key = k /\ last.arg <= 0

\* C18 as stated: after expire(k, ttl) with ttl zero or negative on an
\* existing key, the very next purge-triggering call (get, keys, type, del,
\* expire or rename), at whatever time it runs, the same clock instant
\* included, leaves k in no store.
C18_ImmediateExpiry ==
    \A k \in Keys :
        ExpiredAtOnce(k) =>
            \A t \in now .. MaxTime :
                \A c \in AfterPurgeCall(t) : Absent(c.db, t, k)

\* C18 amended: expire(k, ttl) with ttl <= 0 leaves k the deadline now + ttl;
\* a key whose deadline is earlier than the clock reading of the next
\* purge-triggering call is in no store after that call, unless the call is
\* a rename of a live key onto k.  So a negative ttl expires k at the next
\* purge whenever it runs, and a ttl of zero at the next purge that runs at a
\* later clock reading.
C18_ExpiryOnceDeadlinePassed ==
    \A k \in Keys :
        /\ ExpiredAtOnce(k) =>
              (Has(expiry_map, k) /\ expiry_map[k] = now + last.arg)
        /\ Has(expiry_map, k) =>
              \A t \in now .. MaxTime :
                  expiry_map[k] < t =>
                      \A c \in AfterPurgeCall(t) : k \in c.onto \/ Absent(c.db, t, k)

\* a get at the very clock reading of the first calls has purged the key it
\* asks for: the key's deadline is below that reading, which only an expire
\* with a negative ttl gives
C18_Witness ==
    /\ now = 0
    /\ last.op = "get" /\ ~last.ret
    /\ last.key \in last.purged
    /\ Holders(Db, last.key) = {}

----------------------------------------------------------------------------
(* Expiry consistency. *)

\* C19: in every reachable state every key with an entry in the expiry map
\* is held by at least one of the string, list and hash stores.
C19_ExpiryConsistency ==
    \A k \in DOMAIN expiry_map : Holders(Db, k) # {}

----------------------------------------------------------------------------
(* rename and the expiry map *)

\* C20: after rename(oldKey, newKey) returns true with oldKey # newKey,
\* newKey's deadline is the one oldKey had before the call, newKey has no
\* deadline when oldKey had none, and oldKey has no expiry entry.
C20_RenameCarriesExpiry ==
    \A o \in Keys : \A n \in Keys \ {o} :
        LET r == rename(Db, now, o, n)
        IN r.ret =>
              /\ Has(expiry_map, o) =>
                    (Has(r.db.ex, n) /\ r.db.ex[n] = expiry_map[o])
              /\ ~Has(expiry_map, o) => ~Has(r.db.ex, n)
              /\ ~Has(r.db.ex, o)

----------------------------------------------------------------------------
(* Lists. *)

\* the maps after rpush(k, xs[1]) ... rpush(k, xs[Len(xs)])
RECURSIVE RPushAll(_, _, _)
RPushAll(db, k, xs) ==
    IF xs = <<>> THEN db ELSE RPushAll(rpush(db, k, Head(xs)).db, k, Tail(xs))

\* n calls of lpop(k): the maps they leave, the values returned and whether
\* every call reported found
RECURSIVE LPopAll(_, _, _)
LPopAll(db, k, n) ==
    IF n = 0 THEN [db |-> db, vals |-> <<>>, found |-> TRUE]
    ELSE LET r == lpop(db, k)
             rest == LPopAll(r.db, k, n - 1)
         IN [db |-> rest.db, vals |-> <<r.val>> \o rest.vals,
             found |-> r.ret /\ rest.found]

\* the sequences of one to n values
RECURSIVE SeqsUpTo(_)
SeqsUpTo(n) ==
    IF n = 0 THEN {}
    ELSE SeqsUpTo(n - 1) \cup [1 .. n -> Vals]

\* lpop and rpop return and remove the first and the last element, and
\* report not found for an absent key and for an empty list
PopsTakeTheEnds ==
    \A k \in Keys :
        LET lst == lget(Db, k)
            l == lpop(Db, k)
            r == rpop(Db, k)
        IN IF lst = <<>>
           THEN ~l.ret /\ ~r.ret /\ l.db = Db /\ r.db = Db
           ELSE /\ l.ret /\ l.val = lst[1]
                /\ lget(l.db, k) = SubSeq(lst, 2, Len(lst))
                /\ r.ret /\ r.val = lst[Len(lst)]
                /\ lget(r.db, k) = SubSeq(lst, 1, Len(lst) - 1)

\* on a key with no list, n rpush followed by n lpop return the values in
\* the order pushed, one more lpop reports not found, and the emptied list
\* keeps its entry
PopsReturnPushes(k, xs) ==
    LET pushed == RPushAll(Db, k, xs)
        popped == LPopAll(pushed, k, Len(xs))
    IN /\ popped.found /\ popped.vals = xs
       /\ ~lpop(popped.db, k).ret
       /\ Has(popped.db.ls, k) /\ popped.db.ls[k] = <<>>

\* C13: lpop(k) and rpop(k) remove and return the first and the last element
\* and report not found when k is absent or its list is empty; on a key with
\* no list, rpush(k,x1) ... rpush(k,xn) followed by n lpop(k) returns x1 ...
\* xn in that order, the (n+1)-th lpop reports not found, the emptied list
\* keeps its entry in the list store, and type(k) is "list".
C13_ListEnds ==
    /\ PopsTakeTheEnds
    /\ \A k \in Keys :
          ~Has(list_store, k) =>
              \A xs \in SeqsUpTo(MaxListLen) :
                  /\ PopsReturnPushes(k, xs)
                  /\ type(LPopAll(RPushAll(Db, k, xs), k, Len(xs)).db, now, k).val = "list"

\* what holds of the two list ends, whatever else the key holds
ListEndsApartFromType ==
    /\ PopsTakeTheEnds
    /\ \A k \in Keys :
          ~Has(list_store, k) =>
              \A xs \in SeqsUpTo(MaxListLen) : PopsReturnPushes(k, xs)

\* the number of elements of lst equal to v
Occurrences(lst, v) == Cardinality({i \in 1 .. Len(lst) : lst[i] = v})

\* the positions holding v, in increasing order being the first, second, ...
\* occurrence: position i holds the n-th occurrence counted from the head
NthFromHead(lst, v, i) == Cardinality({j \in 1 .. i : lst[j] = v})
NthFromTail(lst, v, i) == Cardinality({j \in i .. Len(lst) : lst[j] = v})

\* lst without the elements at the positions of the set drop
Without(lst, drop) ==
    LET keep(i) == i \notin drop
        F[i \in 0 .. Len(lst)] ==
            IF i = 0 THEN <<>>
            ELSE IF keep(i) THEN Append(F[i - 1], lst[i]) ELSE F[i - 1]
    IN F[Len(lst)]

Min(a, b) == IF a < b THEN a ELSE b

\* the positions lrem(k, count, v) is to remove from lst: every
\* occurrence of v for count = 0, the first min(count, occurrences) for
\* count > 0, the last min(|count|, occurrences) for count < 0
\* (|INT_MIN| = 2^31 exceeds every number of occurrences)
Removed(lst, count, v) ==
    LET occ == Occurrences(lst, v)
        n == IF count = 0 \/ count = IntMin THEN occ
             ELSE IF count > 0 THEN Min(count, occ)
             ELSE Min(0 - count, occ)
    IN IF count >= 0
       THEN {i \in 1 .. Len(lst) : lst[i] = v /\ NthFromHead(lst, v, i) <= n}
       ELSE {i \in 1 .. Len(lst) : lst[i] = v /\ NthFromTail(lst, v, i) <= n}

\* lrem(k, count, v) with -count evaluated to limit removes those positions
\* and returns their number, and an lrem(k, 0, v) repeated at once returns 0
LRemAgrees(k, count, v, limit) ==
    LET r == lrem(Db, k, count, v, limit)
    IN /\ ~Has(list_store, k) => (r.ret = 0 /\ r.db = Db)
       /\ Has(list_store, k) =>
             /\ r.db.ls[k] = Without(list_store[k], Removed(list_store[k], count, v))
             /\ r.ret = Cardinality(Removed(list_store[k], count, v))
             /\ r.db = [Db EXCEPT !.ls[k] = r.db.ls[k]]
       /\ count = 0 => lrem(r.db, k, 0, v, 0).ret = 0

\* C14: for every list and every count, lrem(k, count, v) removes as
\* follows: count = 0 removes every occurrence of v, count > 0 the first
\* min(count, occurrences) from the head, count < 0 the last
\* min(|count|, occurrences) from the tail; the other elements keep their
\* order; it returns the number removed (0 for an absent key); and a repeated
\* lrem(k, 0, v) returns 0.
C14_LRem ==
    \A k \in Keys, count \in Counts, v \in Vals :
        \A limit \in Negated(count) : LRemAgrees(k, count, v, limit)

\* C14 but for INT_MIN
LRemAgreesButForIntMin ==
    \A k \in Keys, count \in Counts \ {IntMin}, v \in Vals :
        \A limit \in Negated(count) : LRemAgrees(k, count, v, limit)

\* the position (from 0) that index i addresses in a list of length n: i for
\* 0 <= i < n, n + i for -n <= i < 0; -1 stands for no position
Addressed(n, i) ==
    IF 0 <= i /\ i < n THEN i
    ELSE IF 0 - n <= i /\ i < 0 THEN n + i
    ELSE 0 - 1

\* C15: for a list of length n at key k and any integer index i, lindex(k,i)
\* and lset(k,i,v) address element i when 0 <= i < n and element n+i when
\* -n <= i < 0; for every other index, and for an absent key or an empty
\* list, they report failure and lset changes nothing; a successful lset
\* replaces that one element and leaves the length and all other elements
\* as they were.
C15_IndexAddressing ==
    \A k \in Keys, i \in Indices :
        LET lst == lget(Db, k)
            a == Addressed(Len(lst), i)
            g == lindex(Db, k, i)
        IN /\ g.db = Db
           /\ g.ret <=> (a >= 0)
           /\ g.ret => g.val = lst[a + 1]
           /\ \A v \in Vals :
                 LET s == lset(Db, k, i, v)
                 IN /\ s.ret <=> (a >= 0)
                    /\ ~s.ret => s.db = Db
                    /\ s.ret =>
                          /\ Len(s.db.ls[k]) = Len(lst)
                          /\ \A j \in 1 .. Len(lst) :
                                s.db.ls[k][j] = IF j = a + 1 THEN v ELSE lst[j]
                          /\ s.db = [Db EXCEPT !.ls[k] = s.db.ls[k]]

\* an lset with a negative index has replaced the element it addresses in a
\* list of two or more elements, and an lindex with that index reads it back
C15_Witness ==
    /\ last.op = "lset" /\ last.ret
    /\ last.arg[1] < 0
    /\ Len(list_store[last.key]) >= 2
    /\ list_store[last.key][Len(list_store[last.key]) + last.arg[1] + 1] = last.arg[2]
    /\ lindex(Db, last.key, last.arg[1]).val = last.arg[2]
    /\ \E j \in 1 .. Len(list_store[last.key]) : list_store[last.key][j] # last.arg[2]

----------------------------------------------------------------------------
(* Hashes. *)

\* field f of k's hash is present in db
HasField(db, k, f) == Has(db.hs, k) /\ Has(db.hs[k], f)

\* hexists and hget report what the hash store holds and change nothing
HashReads(db, k, f) ==
    /\ hexists(db, k, f).ret <=> HasField(db, k, f)
    /\ hget(db, k, f).ret <=> HasField(db, k, f)
    /\ HasField(db, k, f) => hget(db, k, f).val = db.hs[k][f]
    /\ hexists(db, k, f).db = db
    /\ hget(db, k, f).db = db

\* hdel(k, f) on the present maps
HDelContract(k, f) ==
    LET d == hdel(Db, k, f)
    IN /\ d.ret <=> HasField(Db, k, f)
       /\ ~hexists(d.db, k, f).ret
       /\ ~hget(d.db, k, f).ret
       /\ ~Has(hash_store, k) => d.db = Db
       /\ Has(hash_store, k) =>
             /\ Has(d.db.hs, k)
             /\ DOMAIN d.db.hs[k] = (DOMAIN hash_store[k]) \ {f}
             /\ \A g \in DOMAIN d.db.hs[k] : d.db.hs[k][g] = hash_store[k][g]
             /\ d.db = [Db EXCEPT !.hs[k] = d.db.hs[k]]

\* C16: after hset(k,f,v), hexists(k,f) is true and hget(k,f) returns v, and
\* they keep reporting what the hash holds; hdel(k,f) returns true exactly
\* when f existed in k's hash, afterwards hexists(k,f) is false and hget(k,f)
\* reports not found, every other field of k and every other key being
\* unchanged; hget, hexists and hdel on an absent key report false and
\* create nothing.
C16_FieldLifecycle ==
    /\ last.op = "hset" =>
          /\ hexists(Db, last.key, last.arg[1]).ret
          /\ hget(Db, last.key, last.arg[1]).ret
          /\ hget(Db, last.key, last.arg[1]).val = last.arg[2]
    /\ \A k \in Keys, f \in HashFields :
          /\ HashReads(Db, k, f)
          /\ HDelContract(k, f)
          /\ \A v \in Vals :
                LET s == hset(Db, k, f, v).db
                IN /\ HashReads(s, k, f)
                   /\ hget(s, k, f).val = v
                   /\ \A g \in HashFields \ {f} :
                         HasField(s, k, g) <=> HasField(Db, k, g)

\* an hdel has removed a field that existed from a hash that keeps another
\* field, and the field is no longer found
C16_Witness ==
    /\ last.op = "hdel" /\ last.ret
    /\ Has(hash_store, last.key)
    /\ ~hexists(Db, last.key, last.arg).ret
    /\ ~hget(Db, last.key, last.arg).ret
    /\ \E g \in HashFields \ {last.arg} : hget(Db, last.key, g).ret

====
